---- MODULE Spec2Model ----
(***************************************************************************)
(* Model of src/server.js: the Express route GET /api/weather/taitung      *)
(* (getTaitungWeather), its outbound axios.get call to the CWA open-data   *)
(* API and the normalisation of the township forecast document.            *)
(*                                                                         *)
(* Representation of JavaScript values:                                    *)
(*  - a value that may be undefined/null is a sequence of length 0 or 1:   *)
(*    <<>> is undefined/null, <<v>> is the value v;                        *)
(*  - a JavaScript string is a TLA+ string, + on strings is \o, and a      *)
(*    string is falsy exactly when it is "";                               *)
(*  - an array is a sequence; the JavaScript index i is the TLA+ index     *)
(*    i + 1.                                                               *)
(* The module is kept in ASCII, so the non-ASCII literals of the source    *)
(* are written as the ASCII stand-ins defined below.                       *)
(***************************************************************************)
EXTENDS Integers, Sequences, FiniteSets, TLC

(* ----------------------------- bounds ---------------------------------- *)

\* Number of inbound requests to /api/weather/taitung in a behaviour.
NReq == 2

\* Longest time axis of a weather element in the enumerated documents.
MaxTimes == 2

\* Longest township list in the enumerated township-selection documents.
MaxTownships == 2

Requests == 1..NReq

(* ------------------- string literals of the source --------------------- *)

\* server.js:58, the target city (U+81FA U+6771 U+5E02).
TARGET_CITY == "Taitung City"

\* server.js:114, the suffix U+00B0 followed by C.
DEG_C == "degC"

\* server.js:110, 131
PERCENT == "%"

\* server.js:72, the default update time.
UNKNOWN_ISSUE_TIME == "unknown issue time"

\* server.js:30-31
CONFIG_ERROR_BODY ==
    [error |-> "server configuration error",
     message |-> "set CWA_API_KEY in the .env file"]

\* server.js:51-52
NO_COUNTY_DATA_BODY ==
    [error |-> "no data", message |-> "cannot get Taitung County township weather data"]

\* server.js:63-64
NO_CITY_DATA_BODY ==
    [error |-> "no data", message |-> "cannot get Taitung City weather data"]

\* server.js:151
CWA_API_ERROR == "CWA API error"

\* server.js:152
DEFAULT_ERROR_MESSAGE == "cannot get weather data"

\* server.js:159-160
SERVER_ERROR_BODY ==
    [error |-> "server error", message |-> "cannot get weather data, try again later"]

(* --------------------------- JavaScript values ------------------------- *)

\* !s for a string that may be undefined: undefined and "" are falsy.
Falsy(opt) == opt = <<>> \/ opt[1] = ""

\* a || b for strings that may be undefined, b a string.
OrElse(opt, b) == IF Falsy(opt) THEN b ELSE opt[1]

\* Array.prototype.find on elementName: the 1-based index of the first element
\* with that name, 0 when there is none (find returns undefined).
RECURSIVE FindFrom(_, _, _)
FindFrom(weatherElements, name, k) ==
    IF k > Len(weatherElements) THEN 0
    ELSE IF weatherElements[k].elementName = name THEN k
    ELSE FindFrom(weatherElements, name, k + 1)

FindElement(weatherElements, name) == FindFrom(weatherElements, name, 1)

\* location.find(loc => loc.locationName === TARGET_CITY), as an index.
RECURSIVE FindCityFrom(_, _)
FindCityFrom(location, k) ==
    IF k > Len(location) THEN 0
    ELSE IF location[k].locationName = TARGET_CITY THEN k
    ELSE FindCityFrom(location, k + 1)

(* ------------------------ results of the handler ----------------------- *)

\* res.status(s).json(b), or res.json(b) with status 200.
Sent(status, body) == [kind |-> "sent", status |-> status, body |-> body]

\* An exception thrown inside the try block that is no axios error: a TypeError
\* of a property read on undefined/null, or the Error of line 81. It carries no
\* response field.
Thrown(message) == [kind |-> "thrown", message |-> message]

TYPE_ERROR == "TypeError"

MISSING_WX == "missing Wx weather element"

(* --------------------------- normalisation ----------------------------- *)

\* server.js:87-96, the forecast object before dispatch.
NewForecast(timeEntry) ==
    [startTime |-> timeEntry.startTime,
     endTime   |-> timeEntry.endTime,
     weather   |-> "",
     rain      |-> "",
     minTemp   |-> "",
     maxTemp   |-> "",
     comfort   |-> "",
     windSpeed |-> ""]

\* A missing break after case "CI": the value also lands in windSpeed.
ApplyElementFallThrough(forecast, element, i) ==
    IF i > Len(element.time) THEN forecast
    ELSE IF element.time[i].parameter = <<>> THEN forecast
    ELSE LET value == element.time[i].parameter[1].parameterName
             name  == element.elementName
         IN  CASE name = "Wx"    -> [forecast EXCEPT !.weather = value]
               [] name = "PoP6h" -> [forecast EXCEPT !.rain = value \o PERCENT]
               [] name = "T"     -> [forecast EXCEPT !.minTemp = value \o DEG_C,
                                                     !.maxTemp = value \o DEG_C]
               [] name = "CI"    -> [forecast EXCEPT !.comfort = value,
                                                     !.windSpeed = value]
               [] name = "Ws"    -> [forecast EXCEPT !.windSpeed = value]
               [] OTHER          -> forecast

\* server.js:98-124, the body of weatherElements.forEach for one element.
ApplyElement(forecast, element, i) ==
    IF i > Len(element.time) THEN forecast
    ELSE IF element.time[i].parameter = <<>> THEN forecast
    ELSE LET value == element.time[i].parameter[1].parameterName
             name  == element.elementName
         IN  CASE name = "Wx"    -> [forecast EXCEPT !.weather = value]
               [] name = "PoP6h" -> [forecast EXCEPT !.rain = value \o PERCENT]
               [] name = "T"     -> [forecast EXCEPT !.minTemp = value \o DEG_C,
                                                     !.maxTemp = value \o DEG_C]
               [] name = "CI"    -> [forecast EXCEPT !.comfort = value]
               [] name = "Ws"    -> [forecast EXCEPT !.windSpeed = value]
               [] OTHER          -> forecast

\* server.js:98, forEach in array order over the elements from index k on.
RECURSIVE ForEachElement(_, _, _, _)
ForEachElement(forecast, weatherElements, i, k) ==
    IF k > Len(weatherElements) THEN forecast
    ELSE ForEachElement(ApplyElement(forecast, weatherElements[k], i),
                        weatherElements, i, k + 1)

\* server.js:126-135, the PoP12h fallback. <<>> when line 130 throws the
\* TypeError of reading parameterName of undefined.
Pop12hFallback(forecast, weatherElements, i) ==
    IF forecast.rain # "" THEN <<forecast>>
    ELSE LET p == FindElement(weatherElements, "PoP12h")
         IN  IF p # 0 /\ i <= Len(weatherElements[p].time)
             THEN IF weatherElements[p].time[i].parameter = <<>>
                  THEN <<>>
                  ELSE LET popValue == weatherElements[p].time[i].parameter[1].parameterName
                       IN  <<[forecast EXCEPT !.rain = popValue \o PERCENT]>>
             ELSE <<[forecast EXCEPT !.rain = "0%"]>>

\* server.js:86-139, one iteration of the loop: the forecast pushed, or <<>>
\* when the iteration throws.
BuildForecast(weatherElements, wxElement, i) ==
    Pop12hFallback(
        ForEachElement(NewForecast(wxElement.time[i]), weatherElements, i, 1),
        weatherElements, i)

\* The reference element is taken to be the first element of the list.
WxElementIndexFirst(weatherElements) ==
    IF Len(weatherElements) >= 1 THEN 1 ELSE 0

\* server.js:80, weatherElements.find(e => e.elementName === "Wx").
WxElementIndex(weatherElements) == FindElement(weatherElements, "Wx")

\* server.js:83-139, the loop over the time axis of the Wx element at index w.
ForecastsFrom(weatherElements, w) ==
    LET wxElement == weatherElements[w]
        timeCount == Len(wxElement.time)
        built     == [i \in 1..timeCount |-> BuildForecast(weatherElements, wxElement, i)]
    IN  IF \E i \in 1..timeCount : built[i] = <<>>
        THEN [ok |-> FALSE, message |-> TYPE_ERROR, forecasts |-> <<>>]
        ELSE [ok |-> TRUE, message |-> "",
              forecasts |-> [i \in 1..timeCount |-> built[i][1]]]

\* The check of line 81 left out: no Wx element gives an empty forecast list.
ForecastsNoWxCheck(weatherElements) ==
    LET w == WxElementIndex(weatherElements)
    IN  IF w = 0
        THEN [ok |-> TRUE, message |-> "", forecasts |-> <<>>]
        ELSE ForecastsFrom(weatherElements, w)

\* server.js:76-139, the forecasts of a township's weather elements, or the
\* exception thrown on the way.
Forecasts(weatherElements) ==
    LET w == WxElementIndex(weatherElements)
    IN  IF w = 0
        THEN [ok |-> FALSE, message |-> MISSING_WX, forecasts |-> <<>>]
        ELSE ForecastsFrom(weatherElements, w)

\* The fallback only: always the first township of the list.
SelectTownshipFirst(location) ==
    IF Len(location) >= 1 THEN <<location[1]>> ELSE <<>>

\* server.js:57-59, find(...) || location[0].
SelectTownship(location) ==
    LET k == FindCityFrom(location, 1)
    IN  IF k # 0 THEN <<location[k]>>
        ELSE IF Len(location) >= 1 THEN <<location[1]>>
        ELSE <<>>

\* server.js:68-144, from the selected township to res.json.
RespondTownship(taitungCityData, records) ==
    IF taitungCityData.weatherElement = <<>>
    THEN Thrown(TYPE_ERROR)
    ELSE LET f == Forecasts(taitungCityData.weatherElement[1])
         IN  IF ~f.ok THEN Thrown(f.message)
             ELSE Sent(200,
                    [success |-> TRUE,
                     data |-> [city       |-> taitungCityData.locationName,
                               updateTime |-> OrElse(records.issueTime, UNKNOWN_ISSUE_TIME),
                               forecasts  |-> f.forecasts]])

\* server.js:46-144, the try block after the await, on the body of a 2xx reply.
Normalize(data) ==
    IF data = <<>> THEN Thrown(TYPE_ERROR)
    ELSE IF data[1].records = <<>> THEN Thrown(TYPE_ERROR)
    ELSE LET records == data[1].records[1]
         IN  IF records.locations = <<>> THEN Thrown(TYPE_ERROR)
             ELSE IF Len(records.locations[1]) = 0 THEN Sent(404, NO_COUNTY_DATA_BODY)
             ELSE LET locationDataContainer == records.locations[1][1]
                  IN  IF locationDataContainer = <<>> THEN Sent(404, NO_COUNTY_DATA_BODY)
                      ELSE IF locationDataContainer[1].location = <<>>
                           THEN Sent(404, NO_COUNTY_DATA_BODY)
                      ELSE LET taitungCityData ==
                                   SelectTownship(locationDataContainer[1].location[1])
                           IN  IF taitungCityData = <<>>
                               THEN Sent(404, NO_CITY_DATA_BODY)
                               ELSE RespondTownship(taitungCityData[1], records)

(* ----------------------------- catch block ----------------------------- *)

\* server.js:152, error.response.data.message: undefined on a string payload,
\* the message property (if any) on an object payload.
PayloadMessage(payload) == payload.message

\* server.js:145-162. error is what the try block threw: an axios error with a
\* response (non-2xx reply), an axios error without one (transport failure), or
\* an exception of the normalisation. With a null/undefined payload line 152
\* throws a TypeError inside the catch block, which leaves the handler.
CatchBlock(error) ==
    IF error.response # <<>>
    THEN LET response == error.response[1]
         IN  IF response.data = <<>>
             THEN Thrown(TYPE_ERROR)
             ELSE Sent(response.status,
                       [error   |-> CWA_API_ERROR,
                        message |-> OrElse(PayloadMessage(response.data[1]),
                                           DEFAULT_ERROR_MESSAGE),
                        details |-> response.data])
    ELSE Sent(500, SERVER_ERROR_BODY)

\* server.js:46-162, the handler from the settled axios promise to its end:
\* what it sends, or the exception that leaves it.
HandlerResult(settled) ==
    IF settled.kind = "resolved"
    THEN LET n == Normalize(settled.data)
         IN  IF n.kind = "sent" THEN n
             ELSE CatchBlock([message |-> n.message, response |-> <<>>])
    ELSE CatchBlock(settled.error)

(* -------------------------------- state -------------------------------- *)

VARIABLES
    CWA_API_KEY,   \* process.env.CWA_API_KEY, read once at start-up
    pc,            \* per request: "idle", "awaiting", "done", "escaped"
    calls,         \* per request: the number of axios.get calls issued for it
    reply,         \* per request: <<>> or the settled outcome of its axios.get
    sent,          \* per request: the responses sent, in order
    uncaught       \* per request: <<>> or the message of the error that left the handler

vars == <<CWA_API_KEY, pc, calls, reply, sent, uncaught>>

\* server.js:28, !CWA_API_KEY tested as "is undefined" only.
KeyMissingUndefinedOnly(key) == key = <<>>

\* server.js:28, !CWA_API_KEY.
KeyMissing(key) == Falsy(key)

\* The request is sent twice.
AxiosGetTwice(n) == n + 2

\* server.js:36-44, one axios.get per pass through the handler.
AxiosGet(n) == n + 1

\* server.js:25-44: the handler up to its suspension at await axios.get, or to
\* the configuration error.
Receive(r) ==
    /\ pc[r] = "idle"
    /\ IF KeyMissing(CWA_API_KEY)
       THEN /\ sent' = [sent EXCEPT ![r] = Append(@, Sent(500, CONFIG_ERROR_BODY))]
            /\ pc' = [pc EXCEPT ![r] = "done"]
            /\ UNCHANGED calls
       ELSE /\ calls' = [calls EXCEPT ![r] = AxiosGet(@)]
            /\ pc' = [pc EXCEPT ![r] = "awaiting"]
            /\ UNCHANGED sent
    /\ UNCHANGED <<CWA_API_KEY, reply, uncaught>>

\* server.js:46-162, the continuation of the handler once its axios promise
\* has settled with `settled`.
Continue(r, settled) ==
    /\ pc[r] = "awaiting"
    /\ reply' = [reply EXCEPT ![r] = <<settled>>]
    /\ LET result == HandlerResult(settled)
       IN  IF result.kind = "sent"
           THEN /\ sent' = [sent EXCEPT ![r] = Append(@, result)]
                /\ pc' = [pc EXCEPT ![r] = "done"]
                /\ UNCHANGED uncaught
           ELSE /\ uncaught' = [uncaught EXCEPT ![r] = <<result.message>>]
                /\ pc' = [pc EXCEPT ![r] = "escaped"]
                /\ UNCHANGED sent
    /\ UNCHANGED <<CWA_API_KEY, calls>>

\* server.js:36-44 resolving (a 2xx reply with body `data`), then lines 46-162.
Resolve(r, data) == Continue(r, [kind |-> "resolved", data |-> data])

\* server.js:36-44 rejecting (a non-2xx reply, or no reply), then lines 145-162.
Reject(r, error) == Continue(r, [kind |-> "rejected", error |-> error])

\* server.js:184-190. A router that forwards the rejection of an async handler
\* (Express 5) runs the error middleware; one that ignores it (Express 4)
\* leaves the request unanswered, which is this action never being taken.
ErrorMiddleware(r) ==
    /\ pc[r] = "escaped"
    /\ sent' = [sent EXCEPT ![r] =
                  Append(@, Sent(500, [error |-> "server error", message |-> uncaught[r][1]]))]
    /\ pc' = [pc EXCEPT ![r] = "done"]
    /\ UNCHANGED <<CWA_API_KEY, calls, reply, uncaught>>

(* -------------------------------- inputs ------------------------------- *)

\* process.env.CWA_API_KEY: unset, set to the empty string, set to a key.
ApiKeys == {<<>>, <<"">>, <<"CWA-KEY">>}

\* Bodies of a non-2xx reply as axios hands them over: null (the JSON text
\* null, or no data), a string (an empty or non-JSON body), an object without
\* or with a message property.
Payloads ==
    {<<>>,
     <<[type |-> "string", text |-> "", message |-> <<>>]>>,
     <<[type |-> "object", text |-> "", message |-> <<>>]>>,
     <<[type |-> "object", text |-> "", message |-> <<"">>]>>,
     <<[type |-> "object", text |-> "", message |-> <<"Unauthorized">>]>>}

UpstreamStatuses == {401, 503}

\* What axios.get rejects with: a transport failure (no response), or a
\* non-2xx reply.
AxiosErrors ==
    {[message |-> "Network Error", response |-> <<>>]}
    \cup {[message |-> "Request failed",
           response |-> <<[status |-> s, data |-> p]>>] :
            s \in UpstreamStatuses, p \in Payloads}

\* startTime / endTime of the i-th time entry of the element at position p of
\* a township's list: distinct for distinct entries.
StartTime(p, i) == "start-" \o ToString(p) \o "-" \o ToString(i)

EndTime(p, i) == "end-" \o ToString(p) \o "-" \o ToString(i)

\* The parameterName of the i-th time entry of the element at position p:
\* distinct for distinct entries of a township.
ParamValue(p, i) == ToString(p) \o ToString(i)

\* Along a time axis of length 0..MaxTimes, which entries carry a parameter.
ParameterAxes == UNION {[1..n -> BOOLEAN] : n \in 0..MaxTimes}

\* An element whose i-th time entry has the parameter given by values[i]
\* (<<>>: no parameter).
ElementOf(p, name, values) ==
    [elementName |-> name,
     time |-> [i \in 1..Len(values) |->
                 [startTime |-> StartTime(p, i), endTime |-> EndTime(p, i),
                  parameter |-> IF values[i] = <<>> THEN <<>>
                                ELSE <<[parameterName |-> values[i][1]]>>]]]

Element(p, name, axis) ==
    ElementOf(p, name,
              [i \in 1..Len(axis) |-> IF axis[i] THEN <<ParamValue(p, i)>> ELSE <<>>])

\* The element names of the enumerated townships, in list order. "AT" is a name
\* the switch of line 105 has no case for.
ElementNameLists ==
    {<<>>, <<"Wx">>, <<"T">>,
     <<"Wx", "T">>, <<"T", "Wx">>, <<"Wx", "CI">>, <<"Ws", "Wx">>, <<"Wx", "AT">>,
     <<"Wx", "PoP6h">>, <<"Wx", "PoP12h">>, <<"PoP6h", "PoP12h">>, <<"Wx", "Wx">>,
     <<"Wx", "PoP6h", "PoP12h">>, <<"PoP12h", "CI", "Wx">>}

\* Every list of weather elements with names from ElementNameLists and time
\* axes from ParameterAxes.
WeatherElementLists ==
    UNION {{[p \in 1..Len(names) |-> Element(p, names[p], axes[p])] :
              axes \in [1..Len(names) -> ParameterAxes]} :
           names \in ElementNameLists}

Document(issueTime, location) ==
    <<[records |-> <<[issueTime |-> issueTime,
                      locations |-> << << <<[location |-> <<location>>]>> >> >>]>>]>>

\* Documents of one township, the target city, over WeatherElementLists.
ElementData ==
    {Document(<<"2025-01-01T06:00">>,
              <<[locationName |-> TARGET_CITY, weatherElement |-> <<w>>]>>) :
        w \in WeatherElementLists}

\* Townships of the target city whose parameterName is the empty string: in
\* PoP6h (beside a PoP12h with a value), in PoP12h, in T and in Wx.
EmptyValueData ==
    {Document(<<"2025-01-01T06:00">>,
              <<[locationName |-> TARGET_CITY, weatherElement |-> <<w>>]>>) :
        w \in {<<ElementOf(1, "Wx", <<<<"cloudy">>>>), ElementOf(2, "PoP6h", <<<<"">>>>),
                 ElementOf(3, "PoP12h", <<<<"70">>>>)>>,
               <<ElementOf(1, "Wx", <<<<"">>>>), ElementOf(2, "PoP12h", <<<<"">>>>),
                 ElementOf(3, "T", <<<<"">>>>)>>}}

\* Two fixed element lists that tell townships apart, and one without Wx.
PoolElements ==
    {<<ElementOf(1, "Wx", <<<<"sunny">>>>)>>,
     <<ElementOf(1, "Wx", <<<<"rain">>, <<>>>>), ElementOf(2, "T", <<<<"25">>>>)>>,
     <<ElementOf(1, "T", <<<<"25">>>>)>>}

TownshipPool ==
    {[locationName |-> n, weatherElement |-> <<w>>] :
        n \in {TARGET_CITY, "Chenggong"}, w \in PoolElements}

\* Documents with township lists of length 0..MaxTownships over TownshipPool.
SelectionData ==
    {Document(<<"2025-01-01T06:00">>, location) :
        location \in UNION {[1..n -> TownshipPool] : n \in 0..MaxTownships}}

\* Bodies that lack a part of the expected structure: a null body, no records,
\* no locations list, an empty one, a null first group, a group without a
\* township list or with an empty one, a township without weatherElement, and
\* a well-formed document without / with an empty issueTime.
StructureData ==
    {<<>>,
     <<[records |-> <<>>]>>,
     <<[records |-> <<[issueTime |-> <<>>, locations |-> <<>>]>>]>>,
     <<[records |-> <<[issueTime |-> <<>>, locations |-> << <<>> >>]>>]>>,
     <<[records |-> <<[issueTime |-> <<>>, locations |-> << << <<>> >> >>]>>]>>,
     <<[records |-> <<[issueTime |-> <<>>,
                       locations |-> << << <<[location |-> <<>>]>> >> >>]>>]>>,
     Document(<<>>, <<>>),
     Document(<<>>, <<[locationName |-> TARGET_CITY, weatherElement |-> <<>>]>>),
     Document(<<>>, <<[locationName |-> TARGET_CITY,
                       weatherElement |-> <<<<ElementOf(1, "Wx", <<<<>>>>)>>>>]>>),
     Document(<<"">>, <<[locationName |-> "Chenggong",
                         weatherElement |-> <<<<ElementOf(1, "Wx", <<<<>>>>)>>>>]>>)}

NormData == StructureData \cup SelectionData \cup ElementData \cup EmptyValueData

(* ---------------------------- specifications --------------------------- *)

Init ==
    /\ CWA_API_KEY \in ApiKeys
    /\ pc = [r \in Requests |-> "idle"]
    /\ calls = [r \in Requests |-> 0]
    /\ reply = [r \in Requests |-> <<>>]
    /\ sent = [r \in Requests |-> <<>>]
    /\ uncaught = [r \in Requests |-> <<>>]

\* Concurrent requests: every request may be received at any time, and every
\* pending axios.get may settle at any time, in any order.
Next ==
    \E r \in Requests :
        \/ Receive(r)
        \/ \E data \in StructureData : Resolve(r, data)
        \/ \E error \in AxiosErrors : Reject(r, error)
        \/ ErrorMiddleware(r)

Spec == Init /\ [][Next]_vars

\* One request with a key configured, over all enumerated documents.
InitNorm ==
    /\ Init
    /\ CWA_API_KEY = <<"CWA-KEY">>

NextNorm ==
    \/ Receive(1)
    \/ \E data \in NormData : Resolve(1, data)

SpecNorm == InitNorm /\ [][NextNorm]_vars

(* ------------------- vocabulary of the properties ---------------------- *)

\* The request's axios.get resolved (2xx) / was rejected with a response.
Resolved(r) == reply[r] # <<>> /\ reply[r][1].kind = "resolved"

RejectedWithResponse(r) ==
    /\ reply[r] # <<>>
    /\ reply[r][1].kind = "rejected"
    /\ reply[r][1].error.response # <<>>

\* The request was answered exactly once, with `status`.
AnsweredOnce(r, status) ==
    pc[r] = "done" /\ Len(sent[r]) = 1 /\ sent[r][1].status = status

Succeeded(r) ==
    AnsweredOnce(r, 200) /\ DOMAIN sent[r][1].body = {"success", "data"}

\* The document has a records object with a locations list.
HasLocations(data) ==
    data # <<>> /\ data[1].records # <<>> /\ data[1].records[1].locations # <<>>

\* The document has a first group with a non-empty township list.
HasTownships(data) ==
    /\ HasLocations(data)
    /\ Len(data[1].records[1].locations[1]) >= 1
    /\ data[1].records[1].locations[1][1] # <<>>
    /\ data[1].records[1].locations[1][1][1].location # <<>>
    /\ Len(data[1].records[1].locations[1][1][1].location[1]) >= 1

TownshipList(data) == data[1].records[1].locations[1][1][1].location[1]

Smallest(S) == CHOOSE x \in S : \A y \in S : x <= y

Largest(S) == CHOOSE x \in S : \A y \in S : y <= x

\* The township the specification selects: the entry named after the target
\* city if there is one, the first entry otherwise.
MatchingTownships(location) ==
    {k \in 1..Len(location) : location[k].locationName = TARGET_CITY}

SpecTownship(data) ==
    LET location == TownshipList(data)
    IN  IF MatchingTownships(location) # {}
        THEN location[Smallest(MatchingTownships(location))]
        ELSE location[1]

\* Positions of the elements called `name` in a township's list.
Named(weatherElements, name) ==
    {k \in 1..Len(weatherElements) : weatherElements[k].elementName = name}

HasWx(township) ==
    township.weatherElement # <<>> /\ Named(township.weatherElement[1], "Wx") # {}

\* The reference element: the (first) Wx element of the township.
SpecWx(township) ==
    township.weatherElement[1][Smallest(Named(township.weatherElement[1], "Wx"))]

\* Positions of the elements called `name` whose i-th time entry exists and
\* carries a parameter.
Carriers(weatherElements, name, i) ==
    {k \in Named(weatherElements, name) :
        /\ i <= Len(weatherElements[k].time)
        /\ weatherElements[k].time[i].parameter # <<>>}

\* The value the elements called `name` give at index i, followed by suffix;
\* the empty string when none carries a value there.
SpecField(weatherElements, name, i, suffix) ==
    LET c == Carriers(weatherElements, name, i)
    IN  IF c = {} THEN ""
        ELSE weatherElements[Largest(c)].time[i].parameter[1].parameterName \o suffix

\* The precipitation rule: PoP6h, else PoP12h, else "0%".
SpecRain(weatherElements, i) ==
    IF Carriers(weatherElements, "PoP6h", i) # {}
    THEN SpecField(weatherElements, "PoP6h", i, "%")
    ELSE IF Carriers(weatherElements, "PoP12h", i) # {}
    THEN SpecField(weatherElements, "PoP12h", i, "%")
    ELSE "0%"

(* ------------------------------ properties ----------------------------- *)

\* C1: with no API key configured (unset or empty), every handled request is
\* answered once with HTTP 500 and an error field, and no outbound call is ever
\* issued for any request.
C1_NoKeyNoOutboundCall ==
    (CWA_API_KEY = <<>> \/ CWA_API_KEY = <<"">>) =>
        \A r \in Requests :
            /\ calls[r] = 0
            /\ reply[r] = <<>>
            /\ pc[r] \in {"idle", "done"}
            /\ pc[r] = "done" =>
                 /\ AnsweredOnce(r, 500)
                 /\ "error" \in DOMAIN sent[r][1].body

C1_Witness ==
    /\ CWA_API_KEY = <<"">>
    /\ \A r \in Requests : AnsweredOnce(r, 500) /\ calls[r] = 0

\* C2: whatever the upstream outcome, no error leaves the handler: a request
\* whose outbound call has settled has been answered exactly once.
C2_AllErrorsCaught ==
    \A r \in Requests :
        /\ pc[r] # "escaped"
        /\ Len(sent[r]) <= 1
        /\ reply[r] # <<>> => pc[r] = "done" /\ Len(sent[r]) = 1

\* C3: for every document whose selected township has a Wx element, the request
\* succeeds and at every index of the Wx time axis rain is the PoP6h value with
\* "%", else the PoP12h value with "%", else "0%".
C3_RainResolution ==
    (Resolved(1) /\ HasTownships(reply[1][1].data)
       /\ HasWx(SpecTownship(reply[1][1].data))) =>
        LET township == SpecTownship(reply[1][1].data)
            n == Len(SpecWx(township).time)
        IN  /\ Succeeded(1)
            /\ Len(sent[1][1].body.data.forecasts) = n
            /\ \A i \in 1..n :
                 sent[1][1].body.data.forecasts[i].rain =
                     SpecRain(township.weatherElement[1], i)

\* C4: a non-success upstream reply is answered with the upstream status and a
\* body {error, message, details} whose details is the upstream payload, for
\* every status and every payload.
C4_UpstreamErrorForwarded ==
    \A r \in Requests :
        RejectedWithResponse(r) =>
            LET response == reply[r][1].error.response[1]
            IN  /\ AnsweredOnce(r, response.status)
                /\ DOMAIN sent[r][1].body = {"error", "message", "details"}
                /\ sent[r][1].body.details = response.data

\* C5: for every document with a non-empty township list, the request is
\* answered as if the list held only the township named after the target city
\* (the first entry when none is), and on success city is that township's name.
C5_TownshipSelection ==
    (Resolved(1) /\ HasTownships(reply[1][1].data)) =>
        LET data == reply[1][1].data
            township == SpecTownship(data)
            alone == Document(data[1].records[1].issueTime, <<township>>)
        IN  /\ pc[1] = "done"
            /\ sent[1] = <<HandlerResult([kind |-> "resolved", data |-> alone])>>
            /\ Succeeded(1) => sent[1][1].body.data.city = township.locationName

C5_Witness ==
    /\ Resolved(1) /\ HasTownships(reply[1][1].data)
    /\ Len(TownshipList(reply[1][1].data)) >= 2
    /\ TownshipList(reply[1][1].data)[1].locationName # TARGET_CITY
    /\ MatchingTownships(TownshipList(reply[1][1].data)) # {}
    /\ TownshipList(reply[1][1].data)[1].weatherElement
         # SpecTownship(reply[1][1].data).weatherElement
    /\ Succeeded(1)
    /\ sent[1][1].body.data.city = TARGET_CITY

\* C6: a document without usable location data (no locations list or an empty
\* one, no first group, no township list or an empty one) is answered with
\* HTTP 404 and a body {error, message}.
C6_NoLocationDataIs404 ==
    \A r \in Requests :
        (Resolved(r) /\ reply[r][1].data # <<>> /\ reply[r][1].data[1].records # <<>>
           /\ ~HasTownships(reply[r][1].data)) =>
            /\ AnsweredOnce(r, 404)
            /\ DOMAIN sent[r][1].body = {"error", "message"}

\* C7: a document whose selected township has no Wx element is answered with
\* the HTTP 500 internal-error response, never with a success response.
C7_MissingWxIs500 ==
    (Resolved(1) /\ HasTownships(reply[1][1].data)
       /\ ~HasWx(SpecTownship(reply[1][1].data))) =>
        /\ pc[1] = "done"
        /\ sent[1] = <<Sent(500, SERVER_ERROR_BODY)>>

C7_Witness ==
    /\ Resolved(1) /\ HasTownships(reply[1][1].data)
    /\ SpecTownship(reply[1][1].data).weatherElement # <<>>
    /\ Len(SpecTownship(reply[1][1].data).weatherElement[1]) >= 1
    /\ ~HasWx(SpecTownship(reply[1][1].data))
    /\ AnsweredOnce(1, 500)

\* C8: with an API key configured, exactly one outbound call has been issued
\* for every request handled and none for the others, also after the call
\* failed, and what a request is answered with is determined by the reply to
\* its own call.
C8_OneOutboundCallPerRequest ==
    CWA_API_KEY = <<"CWA-KEY">> =>
        \A r \in Requests :
            /\ calls[r] = IF pc[r] = "idle" THEN 0 ELSE 1
            /\ pc[r] \in {"idle", "awaiting"} => reply[r] = <<>> /\ sent[r] = <<>>
            /\ (pc[r] = "done" /\ uncaught[r] = <<>>) =>
                   sent[r] = <<HandlerResult(reply[r][1])>>

C8_Witness ==
    /\ CWA_API_KEY = <<"CWA-KEY">>
    /\ \A r \in Requests : pc[r] = "done" /\ calls[r] = 1
    /\ \E r \in Requests :
         reply[r][1].kind = "rejected" /\ reply[r][1].error.response = <<>>
    /\ \E r, q \in Requests : sent[r] # sent[q] /\ reply[r] # reply[q]

\* C9: on success the forecasts are as many as the time entries of the selected
\* township's Wx element, and the i-th forecast has the startTime and endTime
\* of the i-th Wx time entry.
C9_TimeAxisFollowsWx ==
    Succeeded(1) =>
        LET township == SpecTownship(reply[1][1].data)
            forecasts == sent[1][1].body.data.forecasts
        IN  /\ HasWx(township)
            /\ Len(forecasts) = Len(SpecWx(township).time)
            /\ \A i \in 1..Len(forecasts) :
                 /\ forecasts[i].startTime = SpecWx(township).time[i].startTime
                 /\ forecasts[i].endTime = SpecWx(township).time[i].endTime

C9_Witness ==
    /\ Succeeded(1)
    /\ Len(sent[1][1].body.data.forecasts) = 2
    /\ \E k \in 1..Len(SpecTownship(reply[1][1].data).weatherElement[1]) :
         /\ SpecTownship(reply[1][1].data).weatherElement[1][k].elementName # "Wx"
         /\ Len(SpecTownship(reply[1][1].data).weatherElement[1][k].time) # 2
         /\ k = 1

\* C10: on success, at every index, weather is the Wx value, minTemp and
\* maxTemp are both the T value followed by the degree suffix, comfort is the
\* CI value and windSpeed the Ws value, each the empty string when no such
\* element carries a value at the index; no other element changes them.
C10_FieldDispatch ==
    Succeeded(1) =>
        LET weatherElements == SpecTownship(reply[1][1].data).weatherElement[1]
            forecasts == sent[1][1].body.data.forecasts
        IN  \A i \in 1..Len(forecasts) :
                /\ forecasts[i].weather = SpecField(weatherElements, "Wx", i, "")
                /\ forecasts[i].minTemp = SpecField(weatherElements, "T", i, DEG_C)
                /\ forecasts[i].maxTemp = forecasts[i].minTemp
                /\ forecasts[i].comfort = SpecField(weatherElements, "CI", i, "")
                /\ forecasts[i].windSpeed = SpecField(weatherElements, "Ws", i, "")

C10_Witness ==
    /\ Succeeded(1)
    /\ Len(sent[1][1].body.data.forecasts) = 2
    /\ sent[1][1].body.data.forecasts[1].comfort # ""
    /\ sent[1][1].body.data.forecasts[1].weather # ""
    /\ sent[1][1].body.data.forecasts[2].comfort = ""
    /\ sent[1][1].body.data.forecasts[1].windSpeed = ""

====
